---- MODULE Spec2Model ----
(***************************************************************************)
(* Model of cargo-graph's dependency graph (src/graph.rs): the node vector, *)
(* the edge vector, the builder operations, node removal with slot          *)
(* renumbering, orphan pruning, self-loop elimination and the finalization  *)
(* sequence of render_to.                                                   *)
(*                                                                          *)
(* Slots are 0-based as in the source (Nd = usize); TLA+ sequences are      *)
(* 1-based, so the node in slot i is nodes[i + 1].  An edge Ed(l, r) is the *)
(* pair <<l, r>>.  A graph value is a record [nodes, edges].                *)
(***************************************************************************)
EXTENDS Integers, Sequences, FiniteSets, TLC

VARIABLES nodes, edges, cfg, pc, call, ret, pre, fin, pattern, root

vars == <<nodes, edges, cfg, pc, call, ret, pre, fin, pattern, root>>

(***************************************************************************)
(* Bounds of the model and the input universe.                              *)
(***************************************************************************)
MaxNodes == 3
MaxEdges == 2
MaxBuildNodes == 2
MaxBuildEdges == 2
MaxVecSlots == 2
MaxVecEdges == 3
MaxTreeNodes == 3
MaxTreeEdges == 4

Names == {"protocol", "proto_rpc"}
Vers == {"1.0", "2.0"}

\* The characters of each name of the universe, for substring search.
NameChars(name) ==
    CASE name = "protocol"  -> <<"p", "r", "o", "t", "o", "c", "o", "l">>
      [] name = "proto_rpc" -> <<"p", "r", "o", "t", "o", "_", "r", "p", "c">>

\* Option<usize>
None == <<>>
Some(x) == <<x>>

Min(S) == CHOOSE x \in S : \A y \in S : x <= y

Slots(ns) == 0 .. (Len(ns) - 1)

Graph(ns, es) == [nodes |-> ns, edges |-> es]

\* ResolvedDep::new(name, ver)
ResolvedDepNew(name, ver) == [name |-> name, ver |-> ver]

\* Vec::remove(i), 0-based; it panics when i is not an index of the vector
VecRemove(s, i) ==
    IF i < Len(s) THEN SubSeq(s, 1, i) \o SubSeq(s, i + 2, Len(s)) ELSE "panic"

(***************************************************************************)
(* DepGraph::get                                                            *)
(***************************************************************************)
Get(ns, id) == IF id < Len(ns) THEN Some(ns[id + 1]) ELSE None

(***************************************************************************)
(* DepGraph::find: the first slot whose node matches (name, ver).           *)
(***************************************************************************)
\* Find with the version comparison left out
FindByName(ns, name, ver) ==
    LET m == {i \in Slots(ns) : ns[i + 1].name = name}
    IN  IF m = {} THEN None ELSE Some(Min(m))

\* Find with the version field compared to the name argument
FindVerAsName(ns, name, ver) ==
    LET m == {i \in Slots(ns) : ns[i + 1].name = name /\ ns[i + 1].ver = name}
    IN  IF m = {} THEN None ELSE Some(Min(m))

Find(ns, name, ver) ==
    LET m == {i \in Slots(ns) : ns[i + 1].name = name /\ ns[i + 1].ver = ver}
    IN  IF m = {} THEN None ELSE Some(Min(m))

(***************************************************************************)
(* DepGraph::find_or_add: [nodes, ret]                                      *)
(***************************************************************************)
\* find_or_add that pushes without looking the node up
FindOrAddAlways(ns, name, ver) ==
    [nodes |-> Append(ns, ResolvedDepNew(name, ver)), ret |-> Len(ns)]

FindOrAdd(ns, name, ver) ==
    LET f == Find(ns, name, ver)
    IN  IF f # None
        THEN [nodes |-> ns, ret |-> f[1]]
        ELSE [nodes |-> Append(ns, ResolvedDepNew(name, ver)), ret |-> Len(ns)]

(***************************************************************************)
(* DepGraph::add_child: [nodes, edges, ret]                                 *)
(***************************************************************************)
\* add_child that pushes the edge only when no equal edge is there yet
AddChildNoDup(g, parent, dep_name, dep_ver) ==
    LET r == FindOrAdd(g.nodes, dep_name, dep_ver)
    IN  [nodes |-> r.nodes,
         edges |-> IF \E k \in 1 .. Len(g.edges) : g.edges[k] = <<parent, r.ret>>
                   THEN g.edges
                   ELSE Append(g.edges, <<parent, r.ret>>),
         ret   |-> r.ret]

AddChild(g, parent, dep_name, dep_ver) ==
    LET r == FindOrAdd(g.nodes, dep_name, dep_ver)
    IN  [nodes |-> r.nodes,
         edges |-> Append(g.edges, <<parent, r.ret>>),
         ret   |-> r.ret]

(***************************************************************************)
(* DepGraph::set_root: [nodes, edges, ret]                                  *)
(***************************************************************************)
SwapSlot(x, root_id) ==
    IF x = 0 THEN root_id ELSE IF x = root_id THEN 0 ELSE x

\* SetRoot with the edge adjustment left out
SetRootNodesOnly(g, name, ver) ==
    LET f == Find(g.nodes, name, ver)
    IN  IF f = None THEN [nodes |-> g.nodes, edges |-> g.edges, ret |-> FALSE]
        ELSE [nodes |-> [i \in 1 .. Len(g.nodes) |->
                            IF i = 1 THEN g.nodes[f[1] + 1]
                            ELSE IF i = f[1] + 1 THEN g.nodes[1]
                            ELSE g.nodes[i]],
              edges |-> g.edges,
              ret   |-> TRUE]

SetRoot(g, name, ver) ==
    LET f == Find(g.nodes, name, ver)
    IN  IF f = None THEN [nodes |-> g.nodes, edges |-> g.edges, ret |-> FALSE]
        ELSE IF f[1] = 0 THEN [nodes |-> g.nodes, edges |-> g.edges, ret |-> TRUE]
        ELSE LET root_id == f[1]
             IN  [nodes |-> [i \in 1 .. Len(g.nodes) |->
                                IF i = 1 THEN g.nodes[root_id + 1]
                                ELSE IF i = root_id + 1 THEN g.nodes[1]
                                ELSE g.nodes[i]],
                  edges |-> [k \in 1 .. Len(g.edges) |->
                                <<SwapSlot(g.edges[k][1], root_id),
                                  SwapSlot(g.edges[k][2], root_id)>>],
                  ret   |-> TRUE]

(***************************************************************************)
(* DepGraph::shift_edges_after_node: for c in id..nodes.len() every edge    *)
(* side equal to c is rewritten to c - 1.  The updates are collected from   *)
(* the unmodified edges and applied afterwards, so each side moves at most  *)
(* once.  nodes is the node vector AFTER the removal.                       *)
(***************************************************************************)
\* usize::MAX, 2^64 - 1, what 0 - 1 wraps to in a release build
UsizeMax == "18446744073709551615"

\* c - 1 for an edge side equal to c in id .. len; debug: the build checks
\* arithmetic overflow (0 - 1 panics), otherwise 0 - 1 wraps
ShiftSide(x, id, len, debug) ==
    IF id <= x /\ x < len
    THEN IF x > 0 THEN x - 1 ELSE IF debug THEN "panic" ELSE UsizeMax
    ELSE x

\* c - 1 is computed in usize: it underflows when an edge side equals c = 0
ShiftUnderflows(ns, es, id) ==
    \E k \in 1 .. Len(es), side \in 1 .. 2 :
        es[k][side] = 0 /\ id <= 0 /\ 0 < Len(ns)

\* ns: the nodes after the removal.  [edges, panic]: a debug build panics
\* while it collects to_upd, before any edge is written
ShiftEdgesAfterNode(ns, es, id, debug) ==
    IF debug /\ ShiftUnderflows(ns, es, id)
    THEN [edges |-> es, panic |-> TRUE]
    ELSE [edges |-> [k \in 1 .. Len(es) |->
                        <<ShiftSide(es[k][1], id, Len(ns), debug),
                          ShiftSide(es[k][2], id, Len(ns), debug)>>],
          panic |-> FALSE]

(***************************************************************************)
(* DepGraph::remove.  Vec::remove panics when id is not a valid slot.       *)
(***************************************************************************)
NotOfId(e, id) == ~(e[1] = id \/ e[2] = id)

RemovePanics(g, id, debug) ==
    \/ id >= Len(g.nodes)
    \/ LET Keep(e) == NotOfId(e, id)
       IN  ShiftEdgesAfterNode(VecRemove(g.nodes, id),
                               SelectSeq(g.edges, Keep), id, debug).panic

Remove(g, id, debug) ==
    LET ns == VecRemove(g.nodes, id)
        Keep(e) == NotOfId(e, id)
        es == SelectSeq(g.edges, Keep)
    IN  Graph(ns, ShiftEdgesAfterNode(ns, es, id, debug).edges)

(***************************************************************************)
(* DepGraph::remove_orphans: [nodes, edges, panic].  used[0] = true panics  *)
(* on an empty node vector, used[idr] = true on an out-of-range target.     *)
(***************************************************************************)
\* Used marking the origin of every edge as well
UsedBothEnds(ns, es) ==
    [id \in Slots(ns) |->
        id = 0 \/ \E k \in 1 .. Len(es) : es[k][1] = id \/ es[k][2] = id]

\* used marking without used[0] = true
UsedNoRoot(ns, es) ==
    [id \in Slots(ns) |-> \E k \in 1 .. Len(es) : es[k][2] = id]

Used(ns, es) ==
    [id \in Slots(ns) |-> id = 0 \/ \E k \in 1 .. Len(es) : es[k][2] = id]

\* the index adjustment left out
DecrNever(x, id) == x

DecrAbove(x, id) == IF x > id THEN x - 1 ELSE x

\* OrphansLoop ending after the first removal
OrphansOnePass(ns, es) ==
    IF Len(ns) = 0 \/ \E k \in 1 .. Len(es) : es[k][2] >= Len(ns)
    THEN [nodes |-> ns, edges |-> es, panic |-> TRUE]
    ELSE LET unused == {id \in Slots(ns) :
                           ~(id = 0 \/ \E k \in 1 .. Len(es) : es[k][2] = id)}
         IN  IF unused = {}
             THEN [nodes |-> ns, edges |-> es, panic |-> FALSE]
             ELSE LET id == Min(unused)
                      NotFrom(e) == e[1] # id
                      kept == SelectSeq(es, NotFrom)
                  IN  [nodes |-> VecRemove(ns, id),
                       edges |-> [k \in 1 .. Len(kept) |->
                                     <<DecrAbove(kept[k][1], id),
                                       DecrAbove(kept[k][2], id)>>],
                       panic |-> FALSE]

\* one pass of the loop body: [nodes, edges, removed, panic]
OrphansIter(ns, es) ==
    IF Len(ns) = 0 \/ \E k \in 1 .. Len(es) : es[k][2] >= Len(ns)
    THEN [nodes |-> ns, edges |-> es, removed |-> FALSE, panic |-> TRUE]
    ELSE LET used == Used(ns, es)
             unused == {id \in Slots(ns) : ~used[id]}
         IN  IF unused = {}
             THEN [nodes |-> ns, edges |-> es, removed |-> FALSE, panic |-> FALSE]
             ELSE LET id == Min(unused)
                      NotFrom(e) == e[1] # id
                      kept == SelectSeq(es, NotFrom)
                  IN  [nodes |-> VecRemove(ns, id),
                       edges |-> [k \in 1 .. Len(kept) |->
                                     <<DecrAbove(kept[k][1], id),
                                       DecrAbove(kept[k][2], id)>>],
                       removed |-> TRUE, panic |-> FALSE]

RECURSIVE OrphansLoop(_, _)
OrphansLoop(ns, es) ==
    LET r == CHOOSE x \in {OrphansIter(ns, es)} : TRUE
    IN  IF r.removed
        THEN OrphansLoop(r.nodes, r.edges)
        ELSE [nodes |-> r.nodes, edges |-> r.edges, panic |-> r.panic]

\* self.edges.retain(|&Ed(idl,idr)| idl < len && idr < len)
RetainInRange(ns, es) ==
    LET len == Len(ns)
        Within(e) == e[1] < len /\ e[2] < len
    IN  SelectSeq(es, Within)

RemoveOrphans(g) == OrphansLoop(g.nodes, RetainInRange(g.nodes, g.edges))

(***************************************************************************)
(* DepGraph::remove_self_pointing: remove the first self-referential edge,  *)
(* rescan, until a scan finds none.                                         *)
(***************************************************************************)
\* remove_self_pointing that stops after the first self-edge it removes
RECURSIVE RemoveFirstSelfPointing(_)
RemoveFirstSelfPointing(es) ==
    IF es = <<>> THEN <<>>
    ELSE IF es[1][1] = es[1][2] THEN Tail(es)
    ELSE <<es[1]>> \o RemoveFirstSelfPointing(Tail(es))

RECURSIVE RemoveSelfPointing(_)
RemoveSelfPointing(es) ==
    LET self_p == {eid \in 0 .. (Len(es) - 1) : es[eid + 1][1] = es[eid + 1][2]}
    IN  IF self_p = {} THEN es
        ELSE RemoveSelfPointing(VecRemove(es, Min(self_p)))

(***************************************************************************)
(* The finalization steps of render_to.                                     *)
(***************************************************************************)
\* derive(PartialOrd, Ord) on Ed(Nd, Nd): lexicographic
EdLess(a, b) == a[1] < b[1] \/ (a[1] = b[1] /\ a[2] < b[2])

\* self.edges.sort()
RECURSIVE SortInsert(_, _)
SortInsert(e, sorted) ==
    IF sorted = <<>> THEN <<e>>
    ELSE IF EdLess(e, Head(sorted)) THEN <<e>> \o sorted
    ELSE <<Head(sorted)>> \o SortInsert(e, Tail(sorted))

\* sort left out: dedup runs on the edges in insertion order
SortNone(es) == es

RECURSIVE Sort(_)
Sort(es) == IF es = <<>> THEN <<>> ELSE SortInsert(Head(es), Sort(Tail(es)))

\* self.edges.dedup(): consecutive equal elements collapse to the first
\* Dedup that keeps every edge
DedupNone(es) == es

RECURSIVE Dedup(_)
Dedup(es) ==
    IF Len(es) <= 1 THEN es
    ELSE IF es[1] = es[2] THEN Dedup(Tail(es))
    ELSE <<es[1]>> \o Dedup(Tail(es))

\* the impt list of render_to
Impt ==
    {"app_interface", "async", "backoff", "bitslab", "canopy", "canopy_check",
     "casefold", "common", "config", "cyclotron", "database", "dbx-collections",
     "debug_enum_int_derive", "diff", "disk_usage_manager", "dynamic_loader",
     "environment", "event_queue", "events", "events_derive", "fileid_manager",
     "filename", "fs", "heirloom", "hello_world", "http2_connection",
     "intent_manager", "mount_table", "network", "ntdll", "nucleus_c_api",
     "nucleus_engine", "pb_service", "planning", "pre_local", "prost",
     "protocol", "resync", "rpc_shim", "sawmill", "scripts", "startup",
     "testing", "transport_adapter", "tree", "trinity"}

\* str::contains
StrContains(name, pat) ==
    LET cs == NameChars(name)
    IN  \E i \in 0 .. (Len(cs) - Len(pat)) : SubSeq(cs, i + 1, i + Len(pat)) = pat

\* the filter_map closure of unimpt_idxs: TRUE when the slot is collected
Unimportant(node) ==
    IF StrContains(node.name, <<"p", "r", "o", "t", "o", "_">>) THEN TRUE
    ELSE IF node.name \in Impt THEN FALSE
    ELSE TRUE

\* unimpt_idxs, in ascending slot order
RECURSIVE UnimptIdxsFrom(_, _)
UnimptIdxsFrom(ns, idx) ==
    IF idx >= Len(ns) THEN <<>>
    ELSE IF Unimportant(ns[idx + 1]) THEN <<idx>> \o UnimptIdxsFrom(ns, idx + 1)
    ELSE UnimptIdxsFrom(ns, idx + 1)

UnimptIdxs(ns) == UnimptIdxsFrom(ns, 0)

\* for (which, idx) in unimpt_idxs.into_iter().enumerate() {
\*     eprintln!("Removing {}", self.nodes[idx - which].name); remove(idx - which) }
\* [nodes, edges, removed, panic]; removed lists, per call of remove, the slot
\* passed and the node that was in that slot.  self.nodes[idx - which] panics
\* on a slot that is not there, eprintln! panics when the write to stderr
\* fails (stderr_ok is FALSE), both before remove is called.
RECURSIVE FilterLoop(_, _, _, _, _, _)
FilterLoop(g, idxs, which, removed, stderr_ok, debug) ==
    IF which >= Len(idxs)
    THEN [nodes |-> g.nodes, edges |-> g.edges, removed |-> removed, panic |-> FALSE]
    ELSE LET idx == idxs[which + 1]
         IN  IF \/ idx < which
                \/ idx - which >= Len(g.nodes)
                \/ ~stderr_ok
                \/ RemovePanics(g, idx - which, debug)
             THEN [nodes |-> g.nodes, edges |-> g.edges, removed |-> removed,
                   panic |-> TRUE]
             ELSE FilterLoop(Remove(g, idx - which, debug), idxs, which + 1,
                             Append(removed, [slot |-> idx - which,
                                              node |-> g.nodes[idx - which + 1]]),
                             stderr_ok, debug)

\* Ed::label unwraps dg.get of both endpoints
LabelPanics(e, ns) == Get(ns, e[1]) = None \/ Get(ns, e[2]) = None

(***************************************************************************)
(* The steps of DepGraph::render_to.  dont_skip: the environment variable   *)
(* DONT_SKIP reads as Ok.  sink_ok: the writes to the output succeed         *)
(* (otherwise the first write fails and try! returns the error).            *)
(* stderr_ok: the writes of eprintln! to stderr succeed.  debug: the build  *)
(* checks arithmetic overflow.                                              *)
(***************************************************************************)
NoGraph == Graph(<<>>, <<>>)

\* self.edges.sort(); self.edges.dedup();
SortDedup(g) == Graph(g.nodes, Dedup(Sort(g.edges)))

\* if env::var("DONT_SKIP").is_err() { for ... remove(idx - which) }
\* the filter run without reading DONT_SKIP
ImportanceFilterAlways(g, dont_skip, stderr_ok, debug) ==
    FilterLoop(g, UnimptIdxs(g.nodes), 0, <<>>, stderr_ok, debug)

ImportanceFilter(g, dont_skip, stderr_ok, debug) ==
    IF dont_skip
    THEN [nodes |-> g.nodes, edges |-> g.edges, removed |-> <<>>, panic |-> FALSE]
    ELSE FilterLoop(g, UnimptIdxs(g.nodes), 0, <<>>, stderr_ok, debug)

\* the emission: Err when the sink fails, a panic when an edge label looks up
\* a slot that is not in the node vector, Ok otherwise
Emit(g, sink_ok) ==
    IF ~sink_ok THEN "Err"
    ELSE IF \E k \in 1 .. Len(g.edges) : LabelPanics(g.edges[k], g.nodes) THEN "panic"
    ELSE "Ok"

(***************************************************************************)
(* State.  nodes, edges: the graph.  pc: where the caller is ("build",      *)
(* "rendered"; "init", "applied" for a single operation).  call: the last   *)
(* operation called with its arguments.  ret: what it returned: a boolean   *)
(* for set_root, "unit" or "panic" for the removals, "Ok", "Err" or "panic" *)
(* for render_to (the build phase does not keep return values).  pre: the   *)
(* graph before the last operation.  fin: the graph after each step of the  *)
(* last render_to.  pattern: how the graph has been built: "start" before   *)
(* any call, "open" after an initial find_or_add followed by add_child      *)
(* calls only, "closed" once the one set_root of that sequence was called,  *)
(* "free" for any other order of calls.  cfg: the label fragments of the    *)
(* borrowed Config.  root: the (name, version) of the last set_root that    *)
(* returned true, None before.                                              *)
(***************************************************************************)
\* Config: the three label fragments read by Ed::label
Config(build_lines, dev_lines, optional_lines) ==
    [build_lines |-> build_lines, dev_lines |-> dev_lines,
     optional_lines |-> optional_lines]

DefaultCfg == Config("[color=purple]", "[color=blue]", "[color=red]")

Call(op, name, ver, slot) == [op |-> op, name |-> name, ver |-> ver, slot |-> slot]

NoCall == Call("none", "", "", 0)

NoFin ==
    [finalized |-> FALSE, dont_skip |-> FALSE, sink_ok |-> FALSE,
     stderr_ok |-> FALSE, dedup |-> NoGraph, orphans |-> NoGraph,
     selfp |-> NoGraph, removed |-> <<>>]

\* Sequences over S of length at most k
BSeq(S, k) == UNION {[1 .. m -> S] : m \in 0 .. k}

(***************************************************************************)
(* Spec: the build phase followed by render_to.  The external resolver      *)
(* calls find_or_add, add_child (with a parent slot it got from the graph)  *)
(* and set_root in any order, then render_to consumes the graph.            *)
(***************************************************************************)
Init ==
    /\ nodes = <<>>
    /\ edges = <<>>
    /\ pc = "build"
    /\ call = NoCall
    /\ ret = 0
    /\ pre = NoGraph
    /\ fin = NoFin
    /\ pattern = "start"
    /\ cfg = DefaultCfg
    /\ root = None

BuildFindOrAdd(name, ver) ==
    LET r == FindOrAdd(nodes, name, ver)
    IN  /\ pc = "build"
        /\ Len(r.nodes) <= MaxBuildNodes
        /\ nodes' = r.nodes
        /\ call' = Call("find_or_add", "", "", 0)
        /\ pattern' = IF pattern = "start" THEN "open" ELSE "free"
        /\ UNCHANGED <<edges, cfg, pc, ret, pre, fin, root>>

BuildAddChild(parent, name, ver) ==
    LET r == AddChild(Graph(nodes, edges), parent, name, ver)
    IN  /\ pc = "build"
        /\ parent < Len(nodes)
        /\ Len(r.nodes) <= MaxBuildNodes
        /\ Len(r.edges) <= MaxBuildEdges
        /\ nodes' = r.nodes
        /\ edges' = r.edges
        /\ call' = Call("add_child", "", "", 0)
        /\ pattern' = IF pattern \in {"open", "closed"} THEN pattern ELSE "free"
        /\ UNCHANGED <<cfg, pc, ret, pre, fin, root>>

BuildSetRoot(name, ver) ==
    LET r == SetRoot(Graph(nodes, edges), name, ver)
    IN  /\ pc = "build"
        /\ nodes' = r.nodes
        /\ edges' = r.edges
        /\ call' = Call("set_root", "", "", 0)
        /\ pattern' = IF pattern = "open" THEN "closed" ELSE "free"
        /\ root' = IF r.ret THEN Some(ResolvedDepNew(name, ver)) ELSE root
        /\ UNCHANGED <<cfg, pc, ret, pre, fin>>

\* render_to: the record fin keeps the graph after every finalization step;
\* finalized says that the sequence dedup, orphans, self-loops, filter ran to
\* its end.
Render ==
    \E d \in {SortDedup(Graph(nodes, edges))} :
    \E o \in {RemoveOrphans(d)} :
    \E sp \in {IF o.panic THEN NoGraph
               ELSE Graph(o.nodes, RemoveSelfPointing(o.edges))} :
    \E dont_skip \in BOOLEAN, stderr_ok \in BOOLEAN, debug \in BOOLEAN :
    \E f \in {IF o.panic
              THEN [nodes |-> o.nodes, edges |-> o.edges, removed |-> <<>>,
                    panic |-> TRUE]
              ELSE ImportanceFilter(sp, dont_skip, stderr_ok, debug)} :
    \E sink_ok \in BOOLEAN :
        /\ pc = "build"
        /\ pc' = "rendered"
        /\ pre' = Graph(nodes, edges)
        /\ nodes' = f.nodes
        /\ edges' = f.edges
        /\ fin' = [finalized |-> ~f.panic, dont_skip |-> dont_skip,
                   sink_ok |-> sink_ok, stderr_ok |-> stderr_ok, dedup |-> d,
                   orphans |-> Graph(o.nodes, o.edges), selfp |-> sp,
                   removed |-> f.removed]
        /\ ret' = IF f.panic THEN "panic" ELSE Emit(Graph(f.nodes, f.edges), sink_ok)
        /\ call' = Call("render_to", "", "", 0)
        /\ UNCHANGED <<cfg, pattern, root>>

Next ==
    \/ \E name \in Names, ver \in Vers : BuildFindOrAdd(name, ver)
    \/ \E parent \in 0 .. (MaxBuildNodes - 1), name \in Names, ver \in Vers :
          BuildAddChild(parent, name, ver)
    \/ \E name \in Names, ver \in Vers : BuildSetRoot(name, ver)
    \/ Render

Spec == Init /\ [][Next]_vars

(***************************************************************************)
(* SpecFin: render_to applied to any graph the build phase can produce.     *)
(* Every vector of distinct dependencies is a node vector the builder       *)
(* reaches (find_or_add in that order), and every edge vector over its      *)
(* slots is reached by add_child(parent, name and version of the child).    *)
(***************************************************************************)
Deps == {ResolvedDepNew(name, ver) : name \in Names, ver \in Vers}

DistinctSeqs(S, k) ==
    {s \in BSeq(S, k) : \A i, j \in 1 .. Len(s) : i # j => s[i] # s[j]}

InitFin ==
    /\ nodes \in DistinctSeqs(Deps, MaxNodes)
    /\ edges \in BSeq(Slots(nodes) \X Slots(nodes), MaxEdges)
    /\ pc = "build"
    /\ call = NoCall
    /\ ret = 0
    /\ pre = NoGraph
    /\ fin = NoFin
    /\ pattern = "free"
    /\ cfg = DefaultCfg
    /\ root = None

NextFin == Render

SpecFin == InitFin /\ [][NextFin]_vars

(***************************************************************************)
(* SpecOps: one graph operation applied to an arbitrary graph.  The graph   *)
(* holds the first n dependencies of DepSeq and any edge vector over the    *)
(* slots 0 .. n, the slot n being out of range.                             *)
(***************************************************************************)
DepSeq ==
    <<ResolvedDepNew("protocol", "1.0"), ResolvedDepNew("proto_rpc", "1.0"),
      ResolvedDepNew("protocol", "2.0"), ResolvedDepNew("proto_rpc", "2.0")>>

InitOps ==
    /\ \E n \in 0 .. MaxNodes :
          /\ n <= Len(DepSeq)
          /\ nodes = SubSeq(DepSeq, 1, n)
          /\ edges \in BSeq((0 .. n) \X (0 .. n), MaxEdges)
    /\ pc = "init"
    /\ call = NoCall
    /\ ret = 0
    /\ pre = NoGraph
    /\ fin = NoFin
    /\ pattern = "free"
    /\ cfg = DefaultCfg
    /\ root = None

CallRemove(id) ==
    \E debug \in BOOLEAN :
    LET g == Graph(nodes, edges)
        r == Remove(g, id, debug)
    IN  /\ pc = "init"
        /\ id < Len(nodes)
        /\ pc' = "applied"
        /\ pre' = g
        /\ nodes' = r.nodes
        /\ edges' = r.edges
        /\ ret' = IF RemovePanics(g, id, debug) THEN "panic" ELSE "unit"
        /\ call' = Call("remove", "", "", id)
        /\ UNCHANGED <<cfg, fin, pattern, root>>

CallRemoveOrphans ==
    LET g == Graph(nodes, edges)
        r == RemoveOrphans(g)
    IN  /\ pc = "init"
        /\ pc' = "applied"
        /\ pre' = g
        /\ nodes' = r.nodes
        /\ edges' = r.edges
        /\ ret' = IF r.panic THEN "panic" ELSE "unit"
        /\ call' = Call("remove_orphans", "", "", 0)
        /\ UNCHANGED <<cfg, fin, pattern, root>>

CallRemoveSelfPointing ==
    LET g == Graph(nodes, edges)
    IN  /\ pc = "init"
        /\ pc' = "applied"
        /\ pre' = g
        /\ edges' = RemoveSelfPointing(edges)
        /\ ret' = "unit"
        /\ call' = Call("remove_self_pointing", "", "", 0)
        /\ UNCHANGED <<nodes, cfg, fin, pattern, root>>

CallSetRoot(name, ver) ==
    LET g == Graph(nodes, edges)
        r == SetRoot(g, name, ver)
    IN  /\ pc = "init"
        /\ pc' = "applied"
        /\ pre' = g
        /\ nodes' = r.nodes
        /\ edges' = r.edges
        /\ ret' = r.ret
        /\ call' = Call("set_root", name, ver, 0)
        /\ UNCHANGED <<cfg, fin, pattern, root>>

CallFindOrAdd(name, ver) ==
    LET r == FindOrAdd(nodes, name, ver)
    IN  /\ pc = "init"
        /\ pc' = "applied"
        /\ pre' = Graph(nodes, edges)
        /\ nodes' = r.nodes
        /\ ret' = r.ret
        /\ call' = Call("find_or_add", name, ver, 0)
        /\ UNCHANGED <<edges, cfg, fin, pattern, root>>

CallAddChild(parent, name, ver) ==
    LET g == Graph(nodes, edges)
        r == AddChild(g, parent, name, ver)
    IN  /\ pc = "init"
        /\ pc' = "applied"
        /\ pre' = g
        /\ nodes' = r.nodes
        /\ edges' = r.edges
        /\ ret' = r.ret
        /\ call' = Call("add_child", name, ver, parent)
        /\ UNCHANGED <<cfg, fin, pattern, root>>

\* the same find_or_add call made a second time, right after the first
CallFindOrAddAgain ==
    LET r == FindOrAdd(nodes, call.name, call.ver)
    IN  /\ pc = "applied"
        /\ call.op = "find_or_add"
        /\ pc' = "again"
        /\ nodes' = r.nodes
        /\ ret' = r.ret
        /\ UNCHANGED <<edges, cfg, call, pre, fin, pattern, root>>

NextOps ==
    \/ \E id \in 0 .. (MaxNodes - 1) : CallRemove(id)
    \/ CallRemoveOrphans
    \/ CallRemoveSelfPointing
    \/ \E name \in Names, ver \in Vers : CallSetRoot(name, ver)
    \/ \E name \in Names, ver \in Vers : CallFindOrAdd(name, ver)
    \/ CallFindOrAddAgain
    \/ \E parent \in 0 .. MaxNodes, name \in Names, ver \in Vers :
          CallAddChild(parent, name, ver)

SpecOps == InitOps /\ [][NextOps]_vars

(***************************************************************************)
(* SpecEdges: the operations that read the edge vector only, applied to     *)
(* every edge vector of up to MaxVecEdges edges over MaxVecSlots nodes, so  *)
(* that equal edges also occur apart from each other.                       *)
(***************************************************************************)
InitEdges ==
    /\ MaxVecSlots <= Len(DepSeq)
    /\ nodes = SubSeq(DepSeq, 1, MaxVecSlots)
    /\ edges \in BSeq(Slots(nodes) \X Slots(nodes), MaxVecEdges)
    /\ pc = "init"
    /\ call = NoCall
    /\ ret = 0
    /\ pre = NoGraph
    /\ fin = NoFin
    /\ pattern = "free"
    /\ cfg = DefaultCfg
    /\ root = None

\* self.edges.sort(); self.edges.dedup(); at the head of render_to
CallSortDedup ==
    LET g == Graph(nodes, edges)
        d == SortDedup(g)
    IN  /\ pc = "init"
        /\ pc' = "applied"
        /\ pre' = g
        /\ nodes' = d.nodes
        /\ edges' = d.edges
        /\ ret' = "unit"
        /\ call' = Call("sort_dedup", "", "", 0)
        /\ UNCHANGED <<cfg, fin, pattern, root>>

NextEdges ==
    \/ CallSortDedup
    \/ CallRemoveSelfPointing

SpecEdges == InitEdges /\ [][NextEdges]_vars

(***************************************************************************)
(* SpecTree: the construction pattern of the resolver followed by           *)
(* remove_orphans: find_or_add of the root, add_child from slots that are   *)
(* present, one set_root, more add_child calls, up to MaxTreeNodes nodes    *)
(* and MaxTreeEdges edges.  The operations compare names and versions for   *)
(* equality only, so a dependency that is not in the graph yet is always    *)
(* the next one of DepSeq.                                                  *)
(***************************************************************************)
TreeFindOrAdd ==
    LET r == FindOrAdd(nodes, DepSeq[1].name, DepSeq[1].ver)
    IN  /\ pc = "build"
        /\ pattern = "start"
        /\ nodes' = r.nodes
        /\ call' = Call("find_or_add", "", "", 0)
        /\ pattern' = "open"
        /\ UNCHANGED <<edges, cfg, pc, ret, pre, fin, root>>

TreeAddChild(parent, k) ==
    LET r == AddChild(Graph(nodes, edges), parent, DepSeq[k].name, DepSeq[k].ver)
    IN  /\ pc = "build"
        /\ pattern \in {"open", "closed"}
        /\ parent < Len(nodes)
        /\ k <= Len(nodes) + 1
        /\ Len(edges) < MaxTreeEdges
        /\ nodes' = r.nodes
        /\ edges' = r.edges
        /\ call' = Call("add_child", "", "", 0)
        /\ UNCHANGED <<cfg, pc, ret, pre, fin, pattern, root>>

TreeSetRoot(k) ==
    LET r == SetRoot(Graph(nodes, edges), DepSeq[k].name, DepSeq[k].ver)
    IN  /\ pc = "build"
        /\ pattern = "open"
        /\ nodes' = r.nodes
        /\ edges' = r.edges
        /\ call' = Call("set_root", "", "", 0)
        /\ pattern' = "closed"
        /\ root' = IF r.ret THEN Some(DepSeq[k]) ELSE root
        /\ UNCHANGED <<cfg, pc, ret, pre, fin>>

TreeRemoveOrphans ==
    \E r \in {RemoveOrphans(Graph(nodes, edges))} :
        /\ pc = "build"
        /\ pattern = "closed"
        /\ pc' = "applied"
        /\ pre' = Graph(nodes, edges)
        /\ nodes' = r.nodes
        /\ edges' = r.edges
        /\ ret' = IF r.panic THEN "panic" ELSE "unit"
        /\ call' = Call("remove_orphans", "", "", 0)
        /\ UNCHANGED <<cfg, fin, pattern, root>>

NextTree ==
    \/ TreeFindOrAdd
    \/ \E parent \in 0 .. (MaxTreeNodes - 1), k \in 1 .. MaxTreeNodes :
          TreeAddChild(parent, k)
    \/ \E k \in 1 .. MaxTreeNodes : TreeSetRoot(k)
    \/ TreeRemoveOrphans

SpecTree == Init /\ [][NextTree]_vars

(***************************************************************************)
(* SpecLabel: Ed::label applied to one edge of a graph of two nodes, for    *)
(* every pair of dependency kinds and every choice of the three label       *)
(* fragments.  An edge may name the slot 2, which holds no node.            *)
(***************************************************************************)
\* dep::DepKind
Kinds == {"Build", "Dev", "Optional", "Normal"}

\* a ResolvedDep whose kind() is kind
WithKind(dep, kind) == [name |-> dep.name, ver |-> dep.ver, kind |-> kind]

\* ResolvedDep::kind
Kind(node) == node.kind

\* the label fragments a Config may hold
Frags == {"", "[color=red]", "[style=dashed]"}

\* writeln!(w, "[label=\"\"{}];", fragment), as the pieces of the line
LabelLine(fragment) == <<"[label=\"\"", fragment, "];">>

\* the match of Ed::label: the fragment written after [label=""
LabelFragment(parent, child, c) ==
    IF parent = "Build" /\ child = "Build" THEN c.build_lines
    ELSE IF parent = "Build" /\ child = "Dev" THEN c.dev_lines
    ELSE IF parent = "Build" /\ child = "Optional" THEN c.optional_lines
    ELSE IF parent = "Optional" /\ child = "Build" THEN c.optional_lines
    ELSE IF parent = "Optional" /\ child = "Dev" THEN c.optional_lines
    ELSE IF parent = "Optional" /\ child = "Optional" THEN c.optional_lines
    ELSE IF parent = "Dev" /\ child = "Build" THEN c.dev_lines
    ELSE IF parent = "Dev" /\ child = "Dev" THEN c.dev_lines
    ELSE IF parent = "Dev" /\ child = "Optional" THEN c.dev_lines
    ELSE ""

\* Ed::label: [status, line]
EdLabel(e, ns, c, sink_ok) ==
    IF LabelPanics(e, ns) THEN [status |-> "panic", line |-> <<>>]
    ELSE IF ~sink_ok THEN [status |-> "Err", line |-> <<>>]
    ELSE [status |-> "Ok",
          line |-> LabelLine(LabelFragment(Kind(Get(ns, e[1])[1]),
                                           Kind(Get(ns, e[2])[1]), c))]

InitLabel ==
    /\ \E parent \in Kinds, child \in Kinds :
          nodes = <<WithKind(DepSeq[1], parent), WithKind(DepSeq[2], child)>>
    /\ \E e \in (0 .. 2) \X (0 .. 2) : edges = <<e>>
    /\ \E b \in Frags, d \in Frags, o \in Frags : cfg = Config(b, d, o)
    /\ pc = "init"
    /\ call = NoCall
    /\ ret = 0
    /\ pre = NoGraph
    /\ fin = NoFin
    /\ pattern = "free"
    /\ root = None

CallLabel(sink_ok) ==
    /\ pc = "init"
    /\ pc' = "applied"
    /\ pre' = Graph(nodes, edges)
    /\ ret' = EdLabel(edges[1], nodes, cfg, sink_ok)
    /\ call' = Call("label", "", "", 0)
    /\ UNCHANGED <<nodes, edges, cfg, fin, pattern, root>>

NextLabel == \E sink_ok \in BOOLEAN : CallLabel(sink_ok)

SpecLabel == InitLabel /\ [][NextLabel]_vars

(***************************************************************************)
(* SpecLoop: remove_orphans run one loop iteration at a time on the graphs  *)
(* of SpecOps.  ret counts the removals made so far.  The code runs on      *)
(* without waiting, hence the weak fairness of its steps.                   *)
(***************************************************************************)
OrphansEnter ==
    /\ pc = "init"
    /\ pc' = "loop"
    /\ pre' = Graph(nodes, edges)
    /\ edges' = RetainInRange(nodes, edges)
    /\ ret' = 0
    /\ call' = Call("remove_orphans", "", "", 0)
    /\ UNCHANGED <<nodes, cfg, fin, pattern, root>>

OrphansStep ==
    \E r \in {OrphansIter(nodes, edges)} :
        /\ pc = "loop"
        /\ pc' = IF r.panic THEN "panicked" ELSE IF r.removed THEN "loop" ELSE "done"
        /\ nodes' = r.nodes
        /\ edges' = r.edges
        /\ ret' = IF r.removed THEN ret + 1 ELSE ret
        /\ UNCHANGED <<cfg, call, pre, fin, pattern, root>>

NextLoop ==
    \/ OrphansEnter
    \/ OrphansStep

SpecLoop == InitOps /\ [][NextLoop]_vars /\ WF_vars(NextLoop)

(***************************************************************************)
(* Vocabulary of the properties, written without the operators above.       *)
(***************************************************************************)
InRange(ns, es) ==
    \A k \in 1 .. Len(es) : es[k][1] < Len(ns) /\ es[k][2] < Len(ns)

Targeted(ns, es) ==
    \A id \in 0 .. (Len(ns) - 1) : id = 0 \/ \E k \in 1 .. Len(es) : es[k][2] = id

Present(ns, name, ver) ==
    \E i \in 1 .. Len(ns) : ns[i].name = name /\ ns[i].ver = ver

NodeSet(ns) == {ns[i] : i \in 1 .. Len(ns)}

\* the node an edge side refers to, <<>> when the slot is out of range
NodeAt(ns, x) == IF x < Len(ns) THEN <<ns[x + 1]>> ELSE <<>>

\* an edge read as a (parent node, child node) relationship
Rel(ns, e) == <<NodeAt(ns, e[1]), NodeAt(ns, e[2])>>

RelSet(ns, es) == {Rel(ns, es[k]) : k \in 1 .. Len(es)}

\* how many edges of es stand for the relationship r
RelCount(ns, es, r) == Cardinality({k \in 1 .. Len(es) : Rel(ns, es[k]) = r})

Applied(op) == pc = "applied" /\ call.op = op

(***************************************************************************)
(* C1.  Shift correctness of remove: on a graph whose edges are all in      *)
(* range, after remove(s) the edges are exactly the prior edges with both   *)
(* endpoints different from s, each endpoint above s decremented by one,    *)
(* and no endpoint equals or exceeds the new node count.                    *)
(***************************************************************************)
RenumberedEdge(e, s) ==
    <<IF e[1] > s THEN e[1] - 1 ELSE e[1], IF e[2] > s THEN e[2] - 1 ELSE e[2]>>

RECURSIVE ExpectedAfterRemove(_, _)
ExpectedAfterRemove(es, s) ==
    IF es = <<>> THEN <<>>
    ELSE IF es[1][1] = s \/ es[1][2] = s THEN ExpectedAfterRemove(Tail(es), s)
    ELSE <<RenumberedEdge(es[1], s)>> \o ExpectedAfterRemove(Tail(es), s)

C1_ShiftCorrectness ==
    (Applied("remove") /\ InRange(pre.nodes, pre.edges)) =>
        /\ edges = ExpectedAfterRemove(pre.edges, call.slot)
        /\ InRange(nodes, edges)

(***************************************************************************)
(* C5.  Orphan fixpoint: when remove_orphans returns, every remaining node  *)
(* is slot 0 or the destination of a surviving edge, every surviving edge   *)
(* is in range (whatever the input edges were), and remove_orphans applied  *)
(* to the result changes neither nodes nor edges.                           *)
(***************************************************************************)
C5_OrphanFixpoint ==
    (Applied("remove_orphans") /\ ret = "unit") =>
        /\ Targeted(nodes, edges)
        /\ InRange(nodes, edges)
        /\ LET again == RemoveOrphans(Graph(nodes, edges))
           IN  ~again.panic /\ again.nodes = nodes /\ again.edges = edges

\* remove_orphans dropped an out-of-range edge, removed a node and kept an edge
C5_Witness ==
    /\ Applied("remove_orphans") /\ ret = "unit"
    /\ ~InRange(pre.nodes, pre.edges)
    /\ Len(nodes) < Len(pre.nodes)
    /\ edges # <<>>

(***************************************************************************)
(* C6.  Totality: on every graph whose edges are all in range, the graph    *)
(* with zero nodes included, remove_orphans, remove_self_pointing and       *)
(* remove(s) for a valid slot s complete without failing.                   *)
(***************************************************************************)
C6_OperationsTotal ==
    (/\ pc = "applied"
     /\ call.op \in {"remove", "remove_orphans", "remove_self_pointing"}
     /\ InRange(pre.nodes, pre.edges)) => ret # "panic"

(***************************************************************************)
(* C9.  Root swap: when (n, v) is present, set_root(n, v) returns true,     *)
(* slot 0 then holds the node matching (n, v), only slot 0 and the slot     *)
(* where it was found exchange their nodes, and the multiset of edges read  *)
(* as (parent node, child node) relationships is unchanged.                 *)
(***************************************************************************)
FoundAt(ns, name, ver, i) == i < Len(ns) /\ ns[i + 1].name = name /\ ns[i + 1].ver = ver

C9_RootSwap ==
    (Applied("set_root") /\ Present(pre.nodes, call.name, call.ver)) =>
        /\ ret = TRUE
        /\ nodes[1].name = call.name /\ nodes[1].ver = call.ver
        /\ Len(nodes) = Len(pre.nodes)
        /\ NodeSet(nodes) = NodeSet(pre.nodes)
        /\ \E i \in 0 .. (Len(pre.nodes) - 1) :
              /\ FoundAt(pre.nodes, call.name, call.ver, i)
              /\ nodes[i + 1] = pre.nodes[1]
              /\ \A j \in 1 .. Len(nodes) : j \notin {1, i + 1} => nodes[j] = pre.nodes[j]
        /\ Len(edges) = Len(pre.edges)
        /\ \A r \in RelSet(nodes, edges) \cup RelSet(pre.nodes, pre.edges) :
              RelCount(nodes, edges, r) = RelCount(pre.nodes, pre.edges, r)

\* the root was found beyond slot 0 and an edge touching one of the two
\* exchanged slots was rewritten
C9_Witness ==
    /\ Applied("set_root") /\ ret = TRUE
    /\ ~FoundAt(pre.nodes, call.name, call.ver, 0)
    /\ edges # pre.edges
    /\ InRange(pre.nodes, pre.edges)

(***************************************************************************)
(* C10.  set_root(n, v) when no node matches returns false and leaves nodes *)
(* and edges unchanged; when the match is already at slot 0 it returns true *)
(* and leaves the graph unchanged as well.                                  *)
(***************************************************************************)
C10_SetRootNoop ==
    Applied("set_root") =>
        /\ ~Present(pre.nodes, call.name, call.ver) =>
              ret = FALSE /\ nodes = pre.nodes /\ edges = pre.edges
        /\ FoundAt(pre.nodes, call.name, call.ver, 0) =>
              ret = TRUE /\ nodes = pre.nodes /\ edges = pre.edges

\* the name is in the graph under another version only, in a graph with edges
C10_Witness ==
    /\ Applied("set_root") /\ ret = FALSE
    /\ \E i \in 1 .. Len(pre.nodes) :
          pre.nodes[i].name = call.name /\ pre.nodes[i].ver # call.ver
    /\ pre.edges # <<>>
    /\ nodes = pre.nodes /\ edges = pre.edges

(***************************************************************************)
(* C11.  Idempotent lookup: the second of two consecutive find_or_add calls *)
(* with the same (name, version) returns the slot the first returned and    *)
(* changes neither nodes nor edges; the returned slot holds (name,          *)
(* version), and the two calls together add at most one node.               *)
(***************************************************************************)
C11_IdempotentLookup ==
    [][(pc = "applied" /\ call.op = "find_or_add" /\ pc' = "again") =>
          /\ ret' = ret
          /\ nodes' = nodes
          /\ edges' = edges
          /\ FoundAt(nodes', call.name, call.ver, ret')
          /\ Len(nodes') <= Len(pre.nodes) + 1
          /\ edges' = pre.edges]_vars

\* the first call appended the node to a graph that holds the same name
\* under another version, the second call found it
C11_Witness ==
    /\ pc = "again" /\ call.op = "find_or_add"
    /\ Len(nodes) = Len(pre.nodes) + 1
    /\ ret = Len(pre.nodes)
    /\ \E i \in 1 .. Len(pre.nodes) : pre.nodes[i].name = call.name

(***************************************************************************)
(* C12.  Self-loop elimination: after remove_self_pointing no edge has      *)
(* equal endpoints, the edges are exactly the input edges with every        *)
(* self-edge deleted and the others kept in their order, the nodes are      *)
(* untouched, and a second application changes nothing.                     *)
(***************************************************************************)
NotSelfEdge(e) == e[1] # e[2]

C12_SelfLoopElimination ==
    Applied("remove_self_pointing") =>
        /\ \A k \in 1 .. Len(edges) : edges[k][1] # edges[k][2]
        /\ edges = SelectSeq(pre.edges, NotSelfEdge)
        /\ nodes = pre.nodes
        /\ RemoveSelfPointing(edges) = edges

\* two self-edges around an edge that is kept
C12_Witness ==
    /\ Applied("remove_self_pointing")
    /\ Len(pre.edges) >= 3
    /\ pre.edges[1][1] = pre.edges[1][2]
    /\ pre.edges[2][1] # pre.edges[2][2]
    /\ pre.edges[3][1] = pre.edges[3][2]
    /\ edges = <<pre.edges[2]>>

(***************************************************************************)
(* C13.  Dedup: after the sort and dedup at the head of finalization no two *)
(* edges are equal and the set of distinct (origin, destination) pairs is   *)
(* the set of the accumulated edges, also when equal edges were not next to *)
(* each other in insertion order; the nodes are untouched.                  *)
(***************************************************************************)
PairSet(es) == {es[k] : k \in 1 .. Len(es)}

C13_DedupCorrect ==
    Applied("sort_dedup") =>
        /\ \A i, j \in 1 .. Len(edges) : i # j => edges[i] # edges[j]
        /\ PairSet(edges) = PairSet(pre.edges)
        /\ nodes = pre.nodes

\* two equal edges with a different, larger edge between them
C13_Witness ==
    /\ Applied("sort_dedup")
    /\ Len(pre.edges) = 3
    /\ pre.edges[1] = pre.edges[3]
    /\ pre.edges[1] # pre.edges[2]
    /\ pre.edges[1][1] < pre.edges[2][1]
    /\ Len(edges) = 2

(***************************************************************************)
(* C14.  Termination of remove_orphans: started on a graph with at least    *)
(* one node the loop reaches its end; every iteration either removes        *)
(* exactly one node, never the one at slot 0, or ends the loop leaving the  *)
(* graph as it is; at most (node count - 1) nodes are removed.              *)
(***************************************************************************)
\* ns with the element at some slot other than 0 taken out
OneRemovedNotRoot(ns, after) ==
    \E id \in 1 .. (Len(ns) - 1) :
        after = SubSeq(ns, 1, id) \o SubSeq(ns, id + 2, Len(ns))

C14_OrphansTerminate ==
    /\ (pc = "init" /\ nodes # <<>>) ~> (pc = "done")
    /\ [][(pc = "loop" /\ pre.nodes # <<>>) =>
             \/ pc' = "loop" /\ OneRemovedNotRoot(nodes, nodes')
             \/ pc' = "done" /\ nodes' = nodes /\ edges' = edges]_vars
    /\ []((pc \in {"loop", "done"} /\ pre.nodes # <<>>) =>
             /\ ret <= Len(pre.nodes) - 1
             /\ Len(nodes) = Len(pre.nodes) - ret
             /\ nodes[1] = pre.nodes[1])

\* the loop ended after removing every node but the root, edges among the
\* removed nodes included
C14_Witness ==
    /\ pc = "done"
    /\ Len(pre.nodes) >= 3
    /\ ret = Len(pre.nodes) - 1
    /\ pre.edges # <<>>
    /\ InRange(pre.nodes, pre.edges)

(***************************************************************************)
(* Finalization vocabulary.                                                 *)
(***************************************************************************)
Rendered == pc = "rendered"

Finalized == pc = "rendered" /\ fin.finalized

\* slots reachable from the slots S by following edges parent to child
RECURSIVE ReachFrom(_, _)
ReachFrom(S, es) ==
    LET T == S \cup {es[k][2] : k \in {j \in 1 .. Len(es) : es[j][1] \in S}}
    IN  IF T = S THEN S ELSE ReachFrom(T, es)

\* u has an edge into a slot from which u is reachable
OnCycle(u, es) ==
    \E k \in 1 .. Len(es) : es[k][1] = u /\ u \in ReachFrom({es[k][2]}, es)

NodesAt(ns, S) == {ns[i + 1] : i \in S \cap (0 .. (Len(ns) - 1))}

(***************************************************************************)
(* C2.  render_to fails only if the output sink fails: when every write     *)
(* succeeds, to the sink and to stderr, render_to of a graph built by the   *)
(* builder (which holds at least the root) returns Ok, with the importance  *)
(* filter on or off.                                                        *)
(***************************************************************************)
C2_RenderFailsOnlyOnSink ==
    (Rendered /\ fin.sink_ok /\ fin.stderr_ok /\ pre.nodes # <<>>) => ret = "Ok"

(***************************************************************************)
(* C3.  After the finalization sequence every surviving node is slot 0 or   *)
(* the destination of at least one surviving edge.                          *)
(***************************************************************************)
C3_SurvivorsTargeted == Finalized => Targeted(nodes, edges)

(***************************************************************************)
(* C4.  After the finalization sequence no two surviving edges are equal    *)
(* as (parentSlot, childSlot) pairs and no surviving edge has equal         *)
(* endpoints.                                                               *)
(***************************************************************************)
C4_NoDuplicateNoSelfEdge ==
    Finalized =>
        /\ \A i, j \in 1 .. Len(edges) : i # j => edges[i] # edges[j]
        /\ \A k \in 1 .. Len(edges) : edges[k][1] # edges[k][2]

\* the accumulated edges held a duplicate pair and an edge survived
C4_Witness ==
    /\ Finalized
    /\ \E i, j \in 1 .. Len(pre.edges) : i # j /\ pre.edges[i] = pre.edges[j]
    /\ edges # <<>>

(***************************************************************************)
(* C7.  For graphs built by an initial find_or_add, add_child from present  *)
(* parents and one set_root, the nodes surviving remove_orphans are exactly *)
(* the nodes reachable from slot 0.                                         *)
(***************************************************************************)
C7_OneHopIsReachability ==
    (Applied("remove_orphans") /\ pattern = "closed") =>
        NodeSet(nodes) = NodesAt(pre.nodes, ReachFrom({0}, pre.edges))

(***************************************************************************)
(* C7 as amended.  For the same graphs the nodes surviving remove_orphans   *)
(* are exactly the nodes reachable from slot 0 or from a node that lies on  *)
(* a cycle of edges, a self-edge included.                                  *)
(***************************************************************************)
C7_SurvivorsReachableOrFedByCycle ==
    (Applied("remove_orphans") /\ pattern = "closed") =>
        LET ns == pre.nodes
            es == pre.edges
            cyc == {u \in 0 .. (Len(ns) - 1) : OnCycle(u, es)}
        IN  NodeSet(nodes) = NodesAt(ns, ReachFrom({0} \cup cyc, es))

\* two nodes that feed each other and are not reachable from slot 0
\* survived, in a graph of three nodes without a self-edge
C7_Witness ==
    /\ Applied("remove_orphans") /\ pattern = "closed"
    /\ Len(pre.nodes) = 3 /\ Len(nodes) = 3
    /\ ReachFrom({0}, pre.edges) = {0}
    /\ OnCycle(1, pre.edges) /\ OnCycle(2, pre.edges)
    /\ \A k \in 1 .. Len(pre.edges) : pre.edges[k][1] # pre.edges[k][2]

(***************************************************************************)
(* C8.  Importance filter result: with the filter enabled the surviving     *)
(* nodes are exactly the pre-filter nodes satisfying the importance         *)
(* predicate, in their order; the surviving edges are exactly the           *)
(* pre-filter edges between surviving nodes, each still connecting the same *)
(* two nodes; every slot passed to remove held the node meant to go.        *)
(***************************************************************************)
Important(node) == ~Unimportant(node)

C8_FilterResult ==
    (Finalized /\ ~fin.dont_skip) =>
        LET g == fin.selfp
            KeptEdge(e) ==
                /\ e[1] < Len(g.nodes) /\ Important(g.nodes[e[1] + 1])
                /\ e[2] < Len(g.nodes) /\ Important(g.nodes[e[2] + 1])
            kept == SelectSeq(g.edges, KeptEdge)
        IN  /\ nodes = SelectSeq(g.nodes, Important)
            /\ Len(edges) = Len(kept)
            /\ RelSet(nodes, edges) = RelSet(g.nodes, kept)
            /\ LET gone == SelectSeq(g.nodes, Unimportant)
               IN  /\ Len(fin.removed) = Len(gone)
                   /\ \A k \in 1 .. Len(gone) : fin.removed[k].node = gone[k]

(***************************************************************************)
(* C15.  Override toggle: when DONT_SKIP reads as set and the graph has a   *)
(* node, render_to removes no node for its name; the nodes and edges it     *)
(* emits are exactly those left by dedup, orphan pruning and self-loop      *)
(* elimination, and the emission succeeds whenever the sink does.           *)
(***************************************************************************)
C15_ToggleDisablesFilter ==
    (Rendered /\ fin.dont_skip /\ pre.nodes # <<>>) =>
        /\ fin.finalized
        /\ fin.removed = <<>>
        /\ nodes = fin.selfp.nodes
        /\ edges = fin.selfp.edges
        /\ fin.sink_ok => ret = "Ok"

\* a node the filter would remove is emitted together with an edge to it
C15_Witness ==
    /\ Finalized /\ fin.dont_skip /\ ret = "Ok"
    /\ \E k \in 1 .. Len(edges) :
          /\ edges[k][2] < Len(nodes)
          /\ nodes[edges[k][2] + 1].name = "proto_rpc"
    /\ Len(nodes) < Len(pre.nodes)

(***************************************************************************)
(* C16.  Edge label selection: an edge whose child is Optional and whose    *)
(* parent is Build, Optional or Dev is written with the optional fragment   *)
(* of the configuration, and an edge whose parent or child is Normal is     *)
(* written with the empty label.                                            *)
(***************************************************************************)
ParentKind == pre.nodes[pre.edges[1][1] + 1].kind

ChildKind == pre.nodes[pre.edges[1][2] + 1].kind

C16_OptionalChildLabel ==
    (Applied("label") /\ ret.status = "Ok") =>
        /\ (ChildKind = "Optional" /\ ParentKind \in {"Build", "Optional", "Dev"}) =>
              ret.line = <<"[label=\"\"", cfg.optional_lines, "];">>
        /\ (ParentKind = "Normal" \/ ChildKind = "Normal") =>
              ret.line = <<"[label=\"\"", "", "];">>

(***************************************************************************)
(* C17.  Node uniqueness: after any sequence of find_or_add, add_child and  *)
(* set_root calls on a graph that started empty, no two slots hold nodes    *)
(* with the same name and the same version.                                 *)
(***************************************************************************)
C17_NodeUniqueness ==
    pc = "build" =>
        \A i, j \in 1 .. Len(nodes) :
            (nodes[i].name = nodes[j].name /\ nodes[i].ver = nodes[j].ver) => i = j

\* two versions of one name side by side, after a root swap and an
\* add_child that found its child among them
C17_Witness ==
    /\ pc = "build"
    /\ Len(nodes) = 2
    /\ nodes[1].name = nodes[2].name
    /\ pattern = "closed"
    /\ Len(edges) = 2

(***************************************************************************)
(* C18.  add_child(parent, name, version) returns the slot find_or_add      *)
(* gives for (name, version): the slot where the node already was, or the   *)
(* new last slot.  It appends exactly one edge (parent, returned slot) at   *)
(* the end, also when an equal edge is already there, adds at most one      *)
(* node, at the end, and leaves the nodes and edges it found as they were.  *)
(* When the edges were in range and parent is a valid slot, the edges are   *)
(* in range afterwards.                                                     *)
(***************************************************************************)
C18_AddChild ==
    Applied("add_child") =>
        /\ IF Present(pre.nodes, call.name, call.ver)
           THEN FoundAt(pre.nodes, call.name, call.ver, ret) /\ nodes = pre.nodes
           ELSE /\ ret = Len(pre.nodes)
                /\ Len(nodes) = Len(pre.nodes) + 1
                /\ SubSeq(nodes, 1, Len(pre.nodes)) = pre.nodes
        /\ FoundAt(nodes, call.name, call.ver, ret)
        /\ Len(edges) = Len(pre.edges) + 1
        /\ SubSeq(edges, 1, Len(pre.edges)) = pre.edges
        /\ edges[Len(edges)] = <<call.slot, ret>>
        /\ (InRange(pre.nodes, pre.edges) /\ call.slot < Len(pre.nodes)) =>
              InRange(nodes, edges)

\* the child was in the graph and the edge to it was there already
C18_Witness ==
    /\ Applied("add_child")
    /\ nodes = pre.nodes
    /\ \E k \in 1 .. Len(pre.edges) : pre.edges[k] = <<call.slot, ret>>
    /\ Len(edges) = Len(pre.edges) + 1
    /\ call.slot # ret
    /\ InRange(nodes, edges)

(***************************************************************************)
(* C19.  Root stability: once set_root(n, v) has returned true, the node    *)
(* (n, v) is at slot 0 in every later state reached by find_or_add and      *)
(* add_child, and after the dedup, the orphan pruning and the self-loop     *)
(* elimination of render_to; with DONT_SKIP set it is at slot 0 of the      *)
(* emitted graph.  (A later set_root that returns true names the new root.) *)
(***************************************************************************)
RootAtSlot0(ns) ==
    /\ Len(ns) > 0
    /\ ns[1].name = root[1].name
    /\ ns[1].ver = root[1].ver

C19_RootStability ==
    root # None =>
        /\ pc = "build" => RootAtSlot0(nodes)
        /\ Rendered =>
              /\ RootAtSlot0(fin.dedup.nodes)
              /\ RootAtSlot0(fin.orphans.nodes)
              /\ RootAtSlot0(fin.selfp.nodes)
              /\ fin.dont_skip => RootAtSlot0(nodes)

\* the root was set after the first add_child, and the pruning removed the
\* node that was at slot 0 before
C19_Witness ==
    /\ Finalized /\ fin.dont_skip
    /\ root # None
    /\ pattern = "closed"
    /\ pre.edges # <<>>
    /\ Len(nodes) < Len(pre.nodes)

(***************************************************************************)
(* C20.  Orphan pruning is conservative: on a graph with a node and all     *)
(* edges in range, remove_orphans removes no node reachable from slot 0     *)
(* along edges, keeps the surviving nodes in their original order, and the  *)
(* surviving edges are exactly the input edges whose origin node survives,  *)
(* in their order, each connecting the same two nodes as before.            *)
(***************************************************************************)
Survives(node) == node \in NodeSet(nodes)

FromSurvivor(e) == Survives(pre.nodes[e[1] + 1])

C20_OrphanPruningConservative ==
    (Applied("remove_orphans") /\ pre.nodes # <<>>
       /\ InRange(pre.nodes, pre.edges)) =>
        /\ ret = "unit"
        /\ NodesAt(pre.nodes, ReachFrom({0}, pre.edges)) \subseteq NodeSet(nodes)
        /\ nodes = SelectSeq(pre.nodes, Survives)
        /\ LET kept == SelectSeq(pre.edges, FromSurvivor)
           IN  /\ Len(edges) = Len(kept)
               /\ \A k \in 1 .. Len(kept) :
                     Rel(nodes, edges[k]) = Rel(pre.nodes, kept[k])

\* a node between two survivors is removed with its edge, and an edge
\* between the survivors is renumbered
C20_Witness ==
    /\ Applied("remove_orphans") /\ ret = "unit"
    /\ InRange(pre.nodes, pre.edges)
    /\ Len(pre.nodes) = 3 /\ Len(nodes) = 2
    /\ nodes = <<pre.nodes[1], pre.nodes[3]>>
    /\ Len(pre.edges) = 2 /\ Len(edges) = 1
    /\ edges # <<pre.edges[1]>> /\ edges # <<pre.edges[2]>>

====
